---- MODULE Spec2Model ----
(***************************************************************************)
(* CragCrowd API: the sensor-data router (POST /sensor-data,               *)
(* GET /sensor-data, GET /sensor-data/walls), the health router, the        *)
(* validation middleware and the storage connection, as a state machine.    *)
(*                                                                         *)
(* The reading log is the sensor_readings collection in insertion order.   *)
(* A handler runs up to its await in one step; the storage operation and   *)
(* the continuation that sends the response are a second step.  insertOne   *)
(* is taken to be atomic: it either appends the document and resolves, or   *)
(* rejects and writes nothing.                                              *)
(***************************************************************************)
EXTENDS Integers, Sequences, FiniteSets, Bags, TLC

VARIABLES db, proc, now, log, pending, resp, acked

vars == <<db, proc, now, log, pending, resp, acked>>

(***************************************************************************)
(* Bounds of the model                                                     *)
(***************************************************************************)
\* readings (stored or in flight) in the general specification
MaxLog == 3
\* inserts awaiting storage at the same time
MaxInflight == 2
\* the system clock runs over StartTime..MaxTime (milliseconds)
MaxTime == 4
\* readings in the bulk specification (more than the default limit)
BulkLog == 101

\* the clock's first value; sensor timestamps of the inputs lie below it
StartTime == 2

(***************************************************************************)
(* Program constants                                                       *)
(***************************************************************************)
DefaultLimit == 100
MinLimit == 1
MaxLimit == 1000

(***************************************************************************)
(* Request inputs                                                          *)
(***************************************************************************)
\* the keys sensorDataSchema recognizes
sensorDataKeys ==
  {"wall_id", "device_count", "timestamp", "gateway_id", "rssi", "snr", "received_at"}

\* the keys querySensorDataSchema recognizes
queryKeys == {"wall_id", "start_time", "end_time", "limit"}

\* fields a caller may add to a body that the schema does not know
Extras ==
  [gateway_id |-> "gw", rssi |-> -85, extra |-> 1,
   server_timestamp |-> 99, created_at |-> 99, _id |-> 99]

\* request bodies of POST /sensor-data
ValidPlain ==
  { [wall_id |-> "A", device_count |-> 3, timestamp |-> 1],
    [wall_id |-> "B", device_count |-> 3, timestamp |-> 1] }

ValidBodies ==
  ValidPlain \cup {Extras @@ [wall_id |-> "A", device_count |-> 5, timestamp |-> 1]}

Bodies ==
  ValidBodies
    \cup { [wall_id |-> "", device_count |-> 3, timestamp |-> 1],
           [wall_id |-> "A", device_count |-> -1, timestamp |-> 1],
           [wall_id |-> "A", device_count |-> 3, timestamp |-> 0],
           [wall_id |-> "A", device_count |-> 3, timestamp |-> -1],
           [wall_id |-> "A", timestamp |-> 1],
           [wall_id |-> "A", device_count |-> 3, timestamp |-> 1, received_at |-> 0] }
    \cup { Extras @@ [wall_id |-> "", device_count |-> -1, timestamp |-> 0] }

\* the one body of the bulk specification
BulkBody == [wall_id |-> "A", device_count |-> 3, timestamp |-> 1]

(***************************************************************************)
(* Strings that are parsed.  A limit is a sequence of characters; a         *)
(* datetime is one of a table of ISO-8601 strings.                          *)
(***************************************************************************)
Digit ==
  [c \in {"0", "1", "2", "3", "4", "5", "6", "7", "8", "9"} |->
     CASE c = "0" -> 0 [] c = "1" -> 1 [] c = "2" -> 2 [] c = "3" -> 3
       [] c = "4" -> 4 [] c = "5" -> 5 [] c = "6" -> 6 [] c = "7" -> 7
       [] c = "8" -> 8 [] c = "9" -> 9]

RECURSIVE SkipWhite(_)
SkipWhite(s) ==
  IF s # <<>> /\ Head(s) = " " THEN SkipWhite(Tail(s)) ELSE s

RECURSIVE TakeDigits(_)
TakeDigits(s) ==
  IF s = <<>> \/ Head(s) \notin DOMAIN Digit
    THEN <<>>
    ELSE <<Head(s)>> \o TakeDigits(Tail(s))

RECURSIVE ToNumber(_, _)
ToNumber(ds, acc) ==
  IF ds = <<>> THEN acc ELSE ToNumber(Tail(ds), 10 * acc + Digit[Head(ds)])

\* parseInt(val, 10): leading white space, an optional sign, then the longest
\* run of digits; NaN when there is no digit
parseInt(s) ==
  LET t == SkipWhite(s)
      signed == t # <<>> /\ Head(t) \in {"+", "-"}
      u == IF signed THEN Tail(t) ELSE t
      ds == TakeDigits(u)
  IN  IF ds = <<>>
        THEN [nan |-> TRUE, val |-> 0]
        ELSE [nan |-> FALSE,
              val |-> IF signed /\ Head(t) = "-" THEN 0 - ToNumber(ds, 0)
                                                  ELSE ToNumber(ds, 0)]

\* the ISO-8601 datetimes of the model and the instant new Date(s) gives
IsoTable ==
  ("1970-01-01T00:00:00.002Z" :> 2) @@ ("1970-01-01T00:00:00.003Z" :> 3)
    @@ ("1970-01-01T00:00:00.004Z" :> 4) @@ ("1970-01-01T00:00:00.009Z" :> 9)

\* z.string().datetime()
isDatetime(s) == s \in DOMAIN IsoTable

\* new Date(start_time)
newDate(s) == IsoTable[s]

(***************************************************************************)
(* Schemas and the validation middleware                                   *)
(***************************************************************************)
\* a passthrough object: no key is dropped
stripNothing(keys, data) == data

\* z.object() keeps the keys of its shape and drops every other key
strip(keys, data) == [k \in (DOMAIN data) \cap keys |-> data[k]]

\* the reading schema without the bound on device_count
sensorDataSchemaNoMin(body) ==
  LET has(k) == k \in DOMAIN body
      errors ==
        {k \in {"wall_id"} : ~has(k) \/ body[k] = ""}
          \cup {k \in {"device_count"} : ~has(k)}
          \cup {k \in {"timestamp"} : ~has(k) \/ body[k] <= 0}
          \cup {k \in {"received_at"} : has(k) /\ body[k] <= 0}
  IN  [success |-> errors = {}, errors |-> errors,
       data |-> strip(sensorDataKeys, body)]

\* sensorDataSchema.parse(body): the paths that fail, and the parsed value
sensorDataSchema(body) ==
  LET has(k) == k \in DOMAIN body
      errors ==
        {k \in {"wall_id"} : ~has(k) \/ body[k] = ""}
          \cup {k \in {"device_count"} : ~has(k) \/ body[k] < 0}
          \cup {k \in {"timestamp"} : ~has(k) \/ body[k] <= 0}
          \cup {k \in {"received_at"} : has(k) /\ body[k] <= 0}
  IN  [success |-> errors = {}, errors |-> errors,
       data |-> strip(sensorDataKeys, body)]

\* the limit of the query schema: transform(parseInt), then int().min(1).max(1000)
limitSchema(val) ==
  LET n == parseInt(val)
  IN  [success |-> ~n.nan /\ n.val >= MinLimit /\ n.val <= MaxLimit, data |-> n.val]

\* querySensorDataSchema.parse(query)
querySensorDataSchema(query) ==
  LET has(k) == k \in DOMAIN query
      errors ==
        {k \in {"start_time", "end_time"} : has(k) /\ ~isDatetime(query[k])}
          \cup {k \in {"limit"} : has(k) /\ ~limitSchema(query[k]).success}
      kept == strip(queryKeys, query)
  IN  [success |-> errors = {}, errors |-> errors,
       data |-> [k \in DOMAIN kept |->
                   IF k = "limit" THEN limitSchema(kept[k]).data ELSE kept[k]]]

\* validateRequest(schema, target): on success the target is replaced by the
\* parsed value and next() runs; a ZodError is answered 400 with its issues
validateRequest(parsed) ==
  IF parsed.success
    THEN [next |-> TRUE, data |-> parsed.data]
    ELSE [next |-> FALSE, status |-> 400,
          json |-> [success |-> FALSE, error |-> "Validation failed",
                    details |-> parsed.errors]]

(***************************************************************************)
(* Storage                                                                 *)
(***************************************************************************)
\* the Error getDatabase() throws while db is not set
NotInitialized == "Database not initialized. Call connectDatabase() first."

\* the error text of a storage driver failure
DriverError == "MongoNetworkError: connection closed"

\* no check of db
getDatabaseUnchecked == [ok |-> TRUE]

\* getDatabase(): throws unless connectDatabase() has set db
getDatabase == IF db = "connected" THEN [ok |-> TRUE] ELSE [ok |-> FALSE, error |-> NotInitialized]

\* the document insertOne stores: the driver adds _id when the document has none
storedDoc(doc, coll) ==
  IF "_id" \in DOMAIN doc THEN doc ELSE [_id |-> Len(coll) + 1] @@ doc

\* a duplicate _id makes insertOne reject
duplicateKey(doc, coll) ==
  \E i \in 1..Len(coll) : coll[i]["_id"] = storedDoc(doc, coll)["_id"]

\* the filter with exclusive time bounds
matchesExclusive(doc, query) ==
  /\ "wall_id" \in DOMAIN query => doc.wall_id = query.wall_id
  /\ "server_timestamp" \in DOMAIN query =>
       LET range == query.server_timestamp
       IN  /\ "$gte" \in DOMAIN range => doc.server_timestamp > range["$gte"]
           /\ "$lte" \in DOMAIN range => doc.server_timestamp < range["$lte"]

\* does a document match the filter built by GET /sensor-data
matches(doc, query) ==
  /\ "wall_id" \in DOMAIN query => doc.wall_id = query.wall_id
  /\ "server_timestamp" \in DOMAIN query =>
       LET range == query.server_timestamp
       IN  /\ "$gte" \in DOMAIN range => doc.server_timestamp >= range["$gte"]
           /\ "$lte" \in DOMAIN range => doc.server_timestamp <= range["$lte"]

\* find(query): the matching documents, in the collection's order
find(coll, query) ==
  LET hit(doc) == matches(doc, query)
  IN  SelectSeq(coll, hit)

\* the ways of putting x into rows, a sequence in which key never increases,
\* that keep it so: anywhere among the rows with the same key
insertDesc(x, rows, key) ==
  LET above == Cardinality({i \in 1..Len(rows) : rows[i][key] > x[key]})
      notBelow == Cardinality({i \in 1..Len(rows) : rows[i][key] >= x[key]})
  IN  {SubSeq(rows, 1, n) \o <<x>> \o SubSeq(rows, n + 1, Len(rows)) : n \in above..notBelow}

\* sort({key: -1}) of the first n documents: every arrangement in which key
\* never increases; the order among equal keys is the storage engine's choice
RECURSIVE sortFirst(_, _, _)
sortFirst(docs, n, key) ==
  IF n = 0
    THEN {<<>>}
    ELSE UNION {insertDesc(docs[n], rows, key) : rows \in sortFirst(docs, n - 1, key)}

\* no sort: the collection's order
sortNone(docs, key) == {docs}

sortDesc(docs, key) == sortFirst(docs, Len(docs), key)

\* cursor.limit(n): n > 0 caps the result at n documents, 0 is no limit, and
\* a negative n caps it at -n
limit(rows, n) ==
  LET cap == IF n < 0 THEN 0 - n ELSE n
  IN  IF n = 0 \/ Len(rows) <= cap THEN rows ELSE SubSeq(rows, 1, cap)

\* the pipeline with $first in place of $last
wallsAggregateFirst(coll) ==
  LET of(w) == {i \in 1..Len(coll) : coll[i].wall_id = w}
      first(w) == CHOOSE i \in of(w) : \A j \in of(w) : i <= j
      max(w) == CHOOSE t \in {coll[i].server_timestamp : i \in of(w)} :
                  \A j \in of(w) : coll[j].server_timestamp <= t
      group(w) == [wall_id |-> w, latest_reading |-> max(w),
                   device_count |-> coll[first(w)].device_count]
      isFirst(i) == \A j \in 1..(i - 1) : coll[j].wall_id # coll[i].wall_id
      firsts == SelectSeq([i \in 1..Len(coll) |-> i], isFirst)
      groups == [k \in 1..Len(firsts) |-> group(coll[firsts[k]].wall_id)]
  IN  sortFirst(groups, Len(groups), "latest_reading")

\* the pipeline of GET /sensor-data/walls: $group by wall_id with
\* $max server_timestamp and $last device_count, $project, $sort
wallsAggregate(coll) ==
  LET ids == {coll[i].wall_id : i \in 1..Len(coll)}
      of(w) == {i \in 1..Len(coll) : coll[i].wall_id = w}
      last(w) == CHOOSE i \in of(w) : \A j \in of(w) : j <= i
      max(w) == CHOOSE t \in {coll[i].server_timestamp : i \in of(w)} :
                  \A j \in of(w) : coll[j].server_timestamp <= t
      group(w) == [wall_id |-> w, latest_reading |-> max(w),
                   device_count |-> coll[last(w)].device_count]
      isFirst(i) == \A j \in 1..(i - 1) : coll[j].wall_id # coll[i].wall_id
      firsts == SelectSeq([i \in 1..Len(coll) |-> i], isFirst)
      groups == [k \in 1..Len(firsts) |-> group(coll[firsts[k]].wall_id)]
  IN  sortDesc(groups, "latest_reading")

(***************************************************************************)
(* Responses.  resp is the response sent by the last step, NoResponse when  *)
(* the step sent none; logged is what the handler wrote to the error log.   *)
(***************************************************************************)
NoResponse == [route |-> "none", status |-> 0]

Response(route, status, req, json, logged) ==
  [route |-> route, status |-> status, req |-> req, json |-> json, logged |-> logged]

POST == "POST /sensor-data"
GET == "GET /sensor-data"
WALLS == "GET /sensor-data/walls"
HEALTH == "GET /health"

(***************************************************************************)
(* The state after the module is loaded: startServer() has been called and  *)
(* connectDatabase() has not yet resolved.                                  *)
(***************************************************************************)
Init ==
  /\ db = "uninit"
  /\ proc = "running"
  /\ now = StartTime
  /\ log = <<>>
  /\ pending = EmptyBag
  /\ resp = NoResponse
  /\ acked = <<>>

\* the system clock advances
Tick ==
  /\ proc = "running"
  /\ now' = now + 1
  /\ resp' = NoResponse
  /\ UNCHANGED <<db, proc, log, pending, acked>>

\* startServer(): connectDatabase() resolves and sets db, or rejects and the
\* process exits with code 1
connectDatabase(ok) ==
  /\ proc = "running"
  /\ db = "uninit"
  /\ IF ok THEN db' = "connected" /\ proc' = proc
           ELSE db' = db /\ proc' = "exited"
  /\ resp' = NoResponse
  /\ UNCHANGED <<now, log, pending, acked>>

\* SIGINT or SIGTERM: process.exit(0); requests in flight are never answered
Shutdown ==
  /\ proc = "running"
  /\ proc' = "exited"
  /\ resp' = NoResponse
  /\ UNCHANGED <<db, now, log, pending, acked>>

\* the document stamped with the sensor's own timestamp
dataWithSensorTime(sensorData, t1, t2) ==
  [server_timestamp |-> sensorData.timestamp, created_at |-> t2] @@ sensorData

\* the document POST /sensor-data builds: the validated body, then
\* server_timestamp and created_at from two readings of the clock
dataWithServerTime(sensorData, t1, t2) ==
  [server_timestamp |-> t1, created_at |-> t2] @@ sensorData

\* POST /sensor-data up to its await: validation, getDatabase(), the two
\* clock readings (the clock advances by d between them) and the call of
\* insertOne
PostSensorData(body, d) ==
  LET v == validateRequest(sensorDataSchema(body))
  IN  /\ proc = "running"
      /\ IF ~v.next
           THEN /\ resp' = Response(POST, v.status, body, v.json, "Validation error:")
                /\ UNCHANGED <<db, proc, now, log, pending, acked>>
           ELSE IF ~getDatabase.ok
             THEN /\ resp' = Response(POST, 500, body,
                                      [success |-> FALSE, error |-> "Failed to save sensor data"],
                                      getDatabase.error)
                  /\ UNCHANGED <<db, proc, now, log, pending, acked>>
             ELSE /\ pending' = pending (+) SetToBag({[doc |-> dataWithServerTime(v.data, now, now + d),
                                                        req |-> body, issued |-> now]})
                  /\ now' = now + d
                  /\ resp' = NoResponse
                  /\ UNCHANGED <<db, proc, log, acked>>

\* an upsert by wall_id in place of the insert
InsertOneUpsert(p, ok) ==
  LET same == {i \in 1..Len(log) : log[i].wall_id = p.doc.wall_id}
  IN  /\ proc = "running"
      /\ BagIn(p, pending)
      /\ pending' = pending (-) SetToBag({p})
      /\ log' = IF same = {} THEN Append(log, storedDoc(p.doc, log))
                 ELSE [i \in 1..Len(log) |-> IF i \in same THEN storedDoc(p.doc, log) ELSE log[i]]
      /\ acked' = IF same = {} THEN Append(acked, [id |-> 0, req |-> p.req, issued |-> p.issued])
                   ELSE acked
      /\ resp' = Response(POST, 201, p.req,
                          [success |-> TRUE, id |-> storedDoc(p.doc, log)["_id"],
                           message |-> "Sensor data received successfully"], "")
      /\ UNCHANGED <<db, proc, now>>

\* insertOne settles and the handler answers: 201 with the inserted id, or
\* 500 when the insert rejects (nothing is written then)
InsertOne(p, ok) ==
  /\ proc = "running"
  /\ BagIn(p, pending)
  /\ pending' = pending (-) SetToBag({p})
  /\ IF ok /\ ~duplicateKey(p.doc, log)
       THEN /\ log' = Append(log, storedDoc(p.doc, log))
            /\ acked' = Append(acked, [id |-> storedDoc(p.doc, log)["_id"],
                                       req |-> p.req, issued |-> p.issued])
            /\ resp' = Response(POST, 201, p.req,
                                [success |-> TRUE, id |-> storedDoc(p.doc, log)["_id"],
                                 message |-> "Sensor data received successfully"], "")
       ELSE /\ resp' = Response(POST, 500, p.req,
                                [success |-> FALSE, error |-> "Failed to save sensor data"],
                                DriverError)
            /\ UNCHANGED <<log, acked>>
  /\ UNCHANGED <<db, proc, now>>

\* the filter GET /sensor-data builds from the validated parameters
buildQuery(params) ==
  LET has(k) == k \in DOMAIN params
      truthy(k) == has(k) /\ params[k] # ""
      byWall == IF truthy("wall_id") THEN [wall_id |-> params.wall_id] ELSE <<>>
      gte == IF truthy("start_time") THEN ("$gte" :> newDate(params.start_time)) ELSE <<>>
      lte == IF truthy("end_time") THEN ("$lte" :> newDate(params.end_time)) ELSE <<>>
      byTime == IF truthy("start_time") \/ truthy("end_time")
                  THEN [server_timestamp |-> gte @@ lte] ELSE <<>>
  IN  byWall @@ byTime

\* no default: an absent limit leaves the cursor unlimited
effectiveLimitNone(params) ==
  IF "limit" \in DOMAIN params THEN params.limit ELSE 0

\* the limit GET /sensor-data passes to the cursor: limit = 100 when absent
effectiveLimit(params) ==
  IF "limit" \in DOMAIN params THEN params.limit ELSE DefaultLimit

\* the results find(query).sort({server_timestamp: -1}).limit(limit).toArray()
\* can give
queryResults(coll, params) ==
  {limit(rows, effectiveLimit(params)) :
     rows \in sortDesc(find(coll, buildQuery(params)), "server_timestamp")}

\* GET /sensor-data: validation, getDatabase(), the query and the answer
GetSensorData(query, ok) ==
  LET v == validateRequest(querySensorDataSchema(query))
  IN  /\ proc = "running"
      /\ IF ~v.next
           THEN resp' = Response(GET, v.status, query, v.json, "Validation error:")
           ELSE IF ~getDatabase.ok
             THEN resp' = Response(GET, 500, query,
                                   [success |-> FALSE, error |-> "Failed to query sensor data"],
                                   getDatabase.error)
             ELSE IF ~ok
               THEN resp' = Response(GET, 500, query,
                                     [success |-> FALSE, error |-> "Failed to query sensor data"],
                                     DriverError)
               ELSE \E data \in queryResults(log, v.data) :
                      resp' = Response(GET, 200, query,
                                       [success |-> TRUE, count |-> Len(data), data |-> data], "")
      /\ UNCHANGED <<db, proc, now, log, pending, acked>>

\* the handler of GET /sensor-data run on params as they are, without the
\* validation middleware before it; the answer is recorded with the limit
\* given to the cursor
HANDLER == "handler of GET /sensor-data"

QuerySensorData(params, ok) ==
  /\ proc = "running"
  /\ IF ~getDatabase.ok
       THEN resp' = Response(HANDLER, 500, params,
                             [success |-> FALSE, error |-> "Failed to query sensor data"],
                             getDatabase.error)
       ELSE IF ~ok
         THEN resp' = Response(HANDLER, 500, params,
                               [success |-> FALSE, error |-> "Failed to query sensor data"],
                               DriverError)
         ELSE \E data \in queryResults(log, params) :
                resp' = [cursorLimit |-> effectiveLimit(params)]
                          @@ Response(HANDLER, 200, params,
                                      [success |-> TRUE, count |-> Len(data), data |-> data], "")
  /\ UNCHANGED <<db, proc, now, log, pending, acked>>

\* GET /sensor-data/walls
GetWalls(ok) ==
  /\ proc = "running"
  /\ IF ~getDatabase.ok
       THEN resp' = Response(WALLS, 500, <<>>,
                             [success |-> FALSE, error |-> "Failed to get walls data"],
                             getDatabase.error)
       ELSE IF ~ok
         THEN resp' = Response(WALLS, 500, <<>>,
                               [success |-> FALSE, error |-> "Failed to get walls data"],
                               DriverError)
         ELSE \E walls \in wallsAggregate(log) :
                resp' = Response(WALLS, 200, <<>>,
                                 [success |-> TRUE, count |-> Len(walls), walls |-> walls], "")
  /\ UNCHANGED <<db, proc, now, log, pending, acked>>

\* GET /health: getDatabase() and a ping; a failure is answered 503 with the
\* message of the error caught
GetHealth(ok) ==
  /\ proc = "running"
  /\ IF ~getDatabase.ok
       THEN resp' = Response(HEALTH, 503, <<>>,
                             [status |-> "unhealthy", timestamp |-> now,
                              database |-> "disconnected", error |-> getDatabase.error], "")
       ELSE IF ~ok
         THEN resp' = Response(HEALTH, 503, <<>>,
                               [status |-> "unhealthy", timestamp |-> now,
                                database |-> "disconnected", error |-> DriverError], "")
         ELSE resp' = Response(HEALTH, 200, <<>>,
                               [status |-> "healthy", timestamp |-> now,
                                database |-> "connected"], "")
  /\ UNCHANGED <<db, proc, now, log, pending, acked>>

\* any other route: the 404 handler
NotFound ==
  /\ proc = "running"
  /\ resp' = Response("*", 404, <<>>, [error |-> "Route not found"], "")
  /\ UNCHANGED <<db, proc, now, log, pending, acked>>

(***************************************************************************)
(* Inputs of the general specification                                     *)
(***************************************************************************)
T2 == "1970-01-01T00:00:00.002Z"
T3 == "1970-01-01T00:00:00.003Z"
T4 == "1970-01-01T00:00:00.004Z"
T9 == "1970-01-01T00:00:00.009Z"

Queries ==
  { <<>>,
    [wall_id |-> "A"],
    [wall_id |-> "B", other |-> "x"],
    [wall_id |-> ""],
    [start_time |-> T3, end_time |-> T3],
    [start_time |-> T4, end_time |-> T2],
    [start_time |-> T3],
    [end_time |-> T3],
    [wall_id |-> "A", start_time |-> T2, end_time |-> T9],
    [wall_id |-> "A", limit |-> <<"1">>] }

FewQueries ==
  { <<>>, [wall_id |-> "A", limit |-> <<"1">>], [limit |-> <<"0">>] }

\* would this body reach insertOne
accepted(body) == sensorDataSchema(body).success /\ getDatabase.ok

\* room for one more reading within the bounds
Room(maxLog, maxInflight, maxTime, d) ==
  /\ Len(log) + BagCardinality(pending) < maxLog
  /\ BagCardinality(pending) < maxInflight
  /\ now + d <= maxTime

(***************************************************************************)
(* The general specification: every route, every kind of body, storage      *)
(* failures, a few queries.                                                 *)
(***************************************************************************)
Next ==
  \/ (now < MaxTime /\ Tick)
  \/ \E ok \in BOOLEAN : connectDatabase(ok)
  \/ Shutdown
  \/ \E body \in Bodies :
       (accepted(body) => Room(MaxLog, MaxInflight, MaxTime, 0)) /\ PostSensorData(body, 0)
  \/ \E p \in BagToSet(pending), ok \in BOOLEAN : InsertOne(p, ok)
  \/ \E query \in FewQueries, ok \in BOOLEAN : GetSensorData(query, ok)
  \/ \E ok \in BOOLEAN : GetWalls(ok)
  \/ \E ok \in BOOLEAN : GetHealth(ok)
  \/ NotFound

Spec == Init /\ [][Next]_vars

(***************************************************************************)
(* The query specification: valid readings, every query.                    *)
(***************************************************************************)
NextQuery ==
  \/ (now < MaxTime /\ Tick)
  \/ connectDatabase(TRUE)
  \/ \E body \in ValidBodies :
       (accepted(body) => Room(MaxLog, MaxInflight, MaxTime, 0)) /\ PostSensorData(body, 0)
  \/ \E p \in BagToSet(pending) : InsertOne(p, TRUE)
  \/ \E query \in Queries : GetSensorData(query, TRUE)
  \/ GetWalls(TRUE)

SpecQuery == Init /\ [][NextQuery]_vars

(***************************************************************************)
(* The bulk specification: one wall, one reading per millisecond, more      *)
(* readings than the default limit.                                         *)
(***************************************************************************)
BulkQueries ==
  { <<>>,
    [wall_id |-> "A"],
    [limit |-> <<"1">>],
    [limit |-> <<"1", "0", "0", "0">>],
    [limit |-> <<"2", "x">>],
    [limit |-> <<"0">>],
    [limit |-> <<"1", "0", "0", "1">>],
    [limit |-> <<"-", "1">>],
    [limit |-> <<"a", "b", "c">>],
    [limit |-> <<>>],
    [start_time |-> "yesterday"] }

NextBulk ==
  \/ connectDatabase(TRUE)
  \/ /\ accepted(BulkBody) => Room(BulkLog, 1, StartTime + BulkLog, 1)
     /\ PostSensorData(BulkBody, 1)
  \/ \E p \in BagToSet(pending) : InsertOne(p, TRUE)
  \/ \E query \in BulkQueries : GetSensorData(query, TRUE)

SpecBulk == Init /\ [][NextBulk]_vars

(***************************************************************************)
(* The builder specification: the handler of GET /sensor-data on            *)
(* parameters that did not pass the validation middleware.                  *)
(***************************************************************************)
RawParams ==
  { <<>>, [wall_id |-> "A"] }
    \cup { [limit |-> n] : n \in {-1, 0, 1, 2, 1000, 1001, 5000} }
    \cup { [wall_id |-> "A", limit |-> n] : n \in {0, 1, 5000} }

NextBuilder ==
  \/ (now < MaxTime /\ Tick)
  \/ connectDatabase(TRUE)
  \/ \E body \in ValidPlain :
       (accepted(body) => Room(MaxLog, 1, MaxTime, 0)) /\ PostSensorData(body, 0)
  \/ \E p \in BagToSet(pending) : InsertOne(p, TRUE)
  \/ \E params \in RawParams, ok \in BOOLEAN : QuerySensorData(params, ok)

SpecBuilder == Init /\ [][NextBuilder]_vars

(***************************************************************************)
(* The clock specification: the clock may advance between the two           *)
(* new Date() calls of POST /sensor-data.                                   *)
(***************************************************************************)
NextClock ==
  \/ (now < MaxTime /\ Tick)
  \/ connectDatabase(TRUE)
  \/ \E body \in ValidBodies, d \in {0, 1} :
       (accepted(body) => Room(MaxLog, MaxInflight, MaxTime, d)) /\ PostSensorData(body, d)
  \/ \E p \in BagToSet(pending), ok \in BOOLEAN : InsertOne(p, ok)

SpecClock == Init /\ [][NextClock]_vars

(***************************************************************************)
(* Properties                                                              *)
(***************************************************************************)
\* a body with device_count < 0, an empty wall_id or a non-positive timestamp
BadReading(body) ==
  \/ "device_count" \in DOMAIN body /\ body.device_count < 0
  \/ "wall_id" \in DOMAIN body /\ body.wall_id = ""
  \/ "timestamp" \in DOMAIN body /\ body.timestamp <= 0

\* C1: a POST /sensor-data whose body has device_count < 0, an empty wall_id
\* or a non-positive timestamp is answered 400 in the step that handles it,
\* whatever the state of the storage connection, and that step leaves the
\* reading log and the inserts in flight as they were; no later step answers
\* such a body in any other way.
C1_InvalidReadingRejected ==
  [][/\ \A body \in Bodies :
          (BadReading(body) /\ PostSensorData(body, 0)) =>
            /\ resp'.route = POST /\ resp'.req = body /\ resp'.status = 400
            /\ resp'.json.success = FALSE /\ resp'.json.details # {}
            /\ log' = log /\ pending' = pending
     /\ (resp'.route = POST /\ BadReading(resp'.req)) =>
          (resp'.status = 400 /\ log' = log)]_vars

\* a bad reading was rejected while readings are stored and one is in flight
C1_Witness ==
  /\ resp.route = POST /\ resp.status = 400 /\ BadReading(resp.req)
  /\ db = "connected" /\ Len(log) > 0 /\ pending # EmptyBag

\* C2: every step leaves the reading log unchanged or appends exactly one
\* reading to it, and it appends only when it answers a POST with 201; the
\* readings already in the log stay as they are, and a step that answers a
\* GET, or a POST with 400 or 500, leaves the log unchanged.
C2_AppendOnly ==
  [][/\ \/ log' = log
        \/ /\ Len(log') = Len(log) + 1
           /\ SubSeq(log', 1, Len(log)) = log
           /\ resp'.route = POST /\ resp'.status = 201
           /\ resp'.json.id = log'[Len(log')]["_id"]
           /\ \A k \in DOMAIN resp'.req \cap sensorDataKeys :
                log'[Len(log')][k] = resp'.req[k]
     /\ resp'.route \in {GET, WALLS, HEALTH} => log' = log
     /\ (resp'.route = POST /\ resp'.status \in {400, 500}) => log' = log]_vars

\* a second reading of a wall was appended after the first
C2_Witness ==
  /\ resp.route = POST /\ resp.status = 201 /\ Len(log) >= 2
  /\ log[1].wall_id = log[Len(log)].wall_id

\* the fields the server adds to a reading
serverKeys == {"server_timestamp", "created_at"}

\* the request whose insert stored log[i] is acked[i].req
\* C3 as stated: every persisted reading consists of exactly the
\* schema-recognized fields of its request body, with their input values,
\* plus server_timestamp and created_at.
C3_Original ==
  \A i \in 1..Len(log) :
    /\ DOMAIN log[i] = (DOMAIN acked[i].req \cap sensorDataKeys) \cup serverKeys
    /\ \A k \in DOMAIN acked[i].req \cap sensorDataKeys : log[i][k] = acked[i].req[k]

\* C3, amended: every persisted reading consists of exactly the
\* schema-recognized fields of its request body, with their input values,
\* plus server_timestamp and created_at read from the server's clock while
\* the request was handled, plus the _id the storage driver generates; no
\* other field of the request body is stored, and a server_timestamp,
\* created_at or _id supplied by the caller is never the stored value.
C3_StoredFields ==
  \A i \in 1..Len(log) :
    LET req == acked[i].req
    IN  /\ DOMAIN log[i] = (DOMAIN req \cap sensorDataKeys) \cup serverKeys \cup {"_id"}
        /\ \A k \in DOMAIN req \cap sensorDataKeys : log[i][k] = req[k]
        /\ \A k \in serverKeys : log[i][k] >= acked[i].issued /\ log[i][k] <= now
        /\ log[i]["_id"] = i
        /\ \A k \in (DOMAIN req \cap (serverKeys \cup {"_id"})) : log[i][k] # req[k]

\* a reading whose body carried unrecognized fields and its own
\* server_timestamp, created_at and _id was persisted
C3_Witness ==
  \E i \in 1..Len(log) :
    {"extra", "server_timestamp", "created_at", "_id", "gateway_id"} \subseteq DOMAIN acked[i].req

\* the time bounds of a query hold of the instant t
InRange(t, req) ==
  /\ "start_time" \in DOMAIN req => IsoTable[req.start_time] <= t
  /\ "end_time" \in DOMAIN req => t <= IsoTable[req.end_time]

\* the limit a query asks for, from the characters of its limit parameter
LimitValue ==
  (<<"1">> :> 1) @@ (<<"2">> :> 2) @@ (<<"2", "x">> :> 2) @@ (<<"1", "0", "0", "0">> :> 1000)
    @@ (<<"0">> :> 0) @@ (<<"1", "0", "0", "1">> :> 1001) @@ (<<"-", "1">> :> -1)

AskedLimit(req) == IF "limit" \in DOMAIN req THEN LimitValue[req.limit] ELSE DefaultLimit

\* the readings of the log that fit the wall and the time bounds of a query
Fitting(req) ==
  {i \in 1..Len(log) :
     /\ "wall_id" \in DOMAIN req => log[i].wall_id = req.wall_id
     /\ InRange(log[i].server_timestamp, req)}

\* log[i] is returned by the last response with the input's fields, and with
\* server_timestamp and created_at not before the request was issued
Returned(i) ==
  \E k \in 1..Len(resp.json.data) :
    LET row == resp.json.data[k]
    IN  /\ row = log[i]
        /\ \A f \in DOMAIN acked[i].req \cap sensorDataKeys : row[f] = acked[i].req[f]
        /\ row.server_timestamp >= acked[i].issued
        /\ row.created_at >= acked[i].issued

\* a 200 answer to a GET /sensor-data filtered by a wall
WallQueryAnswered ==
  /\ resp.route = GET /\ resp.status = 200
  /\ "wall_id" \in DOMAIN resp.req /\ resp.req.wall_id # ""

\* C4 as stated: a GET /sensor-data filtered by the wall of a reading
\* answered 201, with time bounds that include its server_timestamp or none,
\* returns that reading.
C4_Original ==
  WallQueryAnswered => \A i \in Fitting(resp.req) : Returned(i)

\* C4, amended: once POST /sensor-data has answered 201 for a valid reading,
\* a later GET /sensor-data filtered by its wall_id, with time bounds that
\* include its server_timestamp or none, returns a record whose stored fields
\* equal the input fields, with server_timestamp and created_at not earlier
\* than the time the request was issued, whatever was ingested in between,
\* provided that no more readings fit the filter than the limit of the query
\* (100 when no limit is given).
C4_ReadYourWrite ==
  (WallQueryAnswered /\ Cardinality(Fitting(resp.req)) <= AskedLimit(resp.req)) =>
    \A i \in Fitting(resp.req) : Returned(i)

\* two readings of wall A are returned although a reading of wall B was
\* ingested between them
C4_Witness ==
  /\ WallQueryAnswered /\ resp.req.wall_id = "A"
  /\ Len(log) = 3 /\ log[2].wall_id = "B"
  /\ Cardinality(Fitting(resp.req)) = 2 /\ Len(resp.json.data) = 2

\* C5: GET /sensor-data with limit 0 or limit 1001 is answered 400; a 200
\* answer to a request with limit k, 1 <= k <= 1000, has at most k rows (at
\* most one for limit 1), a 200 answer to a request without limit has at
\* most 100 rows, and in every 200 answer count is the number of rows.
C5_LimitBounds ==
  resp.route = GET =>
    /\ ("limit" \in DOMAIN resp.req /\ resp.req.limit \in {<<"0">>, <<"1", "0", "0", "1">>}) =>
         resp.status = 400
    /\ resp.status = 200 =>
         /\ resp.json.count = Len(resp.json.data)
         /\ "limit" \in DOMAIN resp.req =>
              /\ AskedLimit(resp.req) \in 1..1000
              /\ Len(resp.json.data) <= AskedLimit(resp.req)
         /\ "limit" \notin DOMAIN resp.req => Len(resp.json.data) <= 100
         /\ ("limit" \in DOMAIN resp.req /\ resp.req.limit = <<"1">>) =>
              Len(resp.json.data) <= 1

\* a request without limit is answered with 100 rows out of more
C5_Witness ==
  /\ resp.route = GET /\ resp.status = 200 /\ "limit" \notin DOMAIN resp.req
  /\ Len(resp.json.data) = 100 /\ Len(log) > 100

\* the start of a query's time range lies after its end
Inverted(req) ==
  /\ {"start_time", "end_time"} \subseteq DOMAIN req
  /\ req.start_time \in DOMAIN IsoTable /\ req.end_time \in DOMAIN IsoTable
  /\ IsoTable[req.start_time] > IsoTable[req.end_time]

\* C6: every reading a GET /sensor-data returns has start_time <=
\* server_timestamp when start_time is given and server_timestamp <= end_time
\* when end_time is given; the bounds are inclusive: a request by time alone
\* that no limit cuts returns every reading within them, so that start_time =
\* end_time = T returns the readings stamped T and no other; and a request
\* whose start_time is after its end_time is answered 200 with zero rows.
C6_TimeRange ==
  resp.route = GET =>
    /\ resp.status = 200 =>
         /\ \A k \in 1..Len(resp.json.data) :
              InRange(resp.json.data[k].server_timestamp, resp.req)
         /\ ("wall_id" \notin DOMAIN resp.req
               /\ Cardinality(Fitting(resp.req)) <= AskedLimit(resp.req)) =>
              {resp.json.data[k] : k \in 1..Len(resp.json.data)}
                = {log[i] : i \in Fitting(resp.req)}
    /\ (Inverted(resp.req) /\ db = "connected") =>
         (resp.status = 200 /\ resp.json.data = <<>> /\ resp.json.count = 0)

\* with readings stamped 2, 3 and 4, start_time = end_time = 3 returns the
\* one stamped 3
C6_Witness ==
  /\ resp.route = GET /\ resp.status = 200
  /\ resp.req = [start_time |-> T3, end_time |-> T3]
  /\ {log[i].server_timestamp : i \in 1..Len(log)} = {2, 3, 4}
  /\ Len(resp.json.data) = 1 /\ resp.json.data[1].server_timestamp = 3

\* C7 as stated: a GET /sensor-data over a wall with three or more readings
\* returns them in strictly descending server_timestamp order.
C7_Original ==
  (WallQueryAnswered /\ Cardinality(Fitting(resp.req)) >= 3) =>
    \A k \in 1..(Len(resp.json.data) - 1) :
      resp.json.data[k].server_timestamp > resp.json.data[k + 1].server_timestamp

\* C7, amended: for every log reachable by any sequence of ingestions, a GET
\* /sensor-data returns its readings in descending server_timestamp order:
\* no returned reading has a server_timestamp smaller than that of the
\* reading after it (readings ingested in the same millisecond have equal
\* server_timestamps, so the order is not strict).
C7_Descending ==
  (resp.route = GET /\ resp.status = 200) =>
    \A k \in 1..(Len(resp.json.data) - 1) :
      resp.json.data[k].server_timestamp >= resp.json.data[k + 1].server_timestamp

\* three readings of a wall, stored in another order, are returned latest
\* first
C7_Witness ==
  /\ WallQueryAnswered /\ Len(resp.json.data) = 3
  /\ log[1].server_timestamp < log[2].server_timestamp
  /\ resp.json.data[1].server_timestamp > resp.json.data[3].server_timestamp
  /\ resp.json.data[1] = log[2]

\* the readings of wall w in the log
OfWall(w) == {i \in 1..Len(log) : log[i].wall_id = w}

\* C8: GET /sensor-data/walls returns exactly one row per distinct wall_id of
\* the log; the row's latest_reading is the greatest server_timestamp of the
\* wall's readings and its device_count is that of the wall's last-inserted
\* reading; the rows are sorted descending by latest_reading and count is the
\* number of rows.
C8_WallsSummary ==
  (resp.route = WALLS /\ resp.status = 200) =>
    LET rows == resp.json.walls
    IN  /\ resp.json.count = Len(rows)
        /\ {rows[k].wall_id : k \in 1..Len(rows)} = {log[i].wall_id : i \in 1..Len(log)}
        /\ \A k, m \in 1..Len(rows) : rows[k].wall_id = rows[m].wall_id => k = m
        /\ \A k \in 1..Len(rows) :
             /\ DOMAIN rows[k] = {"wall_id", "latest_reading", "device_count"}
             /\ \E i \in OfWall(rows[k].wall_id) :
                  rows[k].latest_reading = log[i].server_timestamp
             /\ \A i \in OfWall(rows[k].wall_id) :
                  /\ log[i].server_timestamp <= rows[k].latest_reading
                  /\ (\A j \in OfWall(rows[k].wall_id) : j <= i) =>
                       rows[k].device_count = log[i].device_count
        /\ \A k \in 1..(Len(rows) - 1) : rows[k].latest_reading >= rows[k + 1].latest_reading

\* wall A with device_count 3 then 5 and one reading of wall B: two rows, and
\* A's device_count is 5
C8_Witness ==
  /\ resp.route = WALLS /\ resp.status = 200
  /\ Len(log) = 3
  /\ log[1].wall_id = "A" /\ log[1].device_count = 3
  /\ log[2].wall_id = "A" /\ log[2].device_count = 5
  /\ log[3].wall_id = "B"
  /\ log[1].server_timestamp < log[2].server_timestamp
  /\ resp.json.count = 2
  /\ \E k \in 1..2 :
       /\ resp.json.walls[k].wall_id = "A" /\ resp.json.walls[k].device_count = 5
       /\ resp.json.walls[k].latest_reading = log[2].server_timestamp

\* C9: every reading returned by a GET /sensor-data whose query carries a
\* wall_id parameter, the empty string included, has that wall_id.
C9_WallFilter ==
  (resp.route = GET /\ resp.status = 200 /\ "wall_id" \in DOMAIN resp.req) =>
    \A k \in 1..Len(resp.json.data) : resp.json.data[k].wall_id = resp.req.wall_id

\* C10: while the storage connection does not exist, no storage operation is
\* started or done, a handler that runs (one whose input passed validation)
\* answers 500, or 503 for the health check, with a structured body, the
\* error it met is the 'not initialized' error of getDatabase(), and the
\* process keeps running.
C10_NotInitialized ==
  db = "uninit" =>
    /\ log = <<>> /\ pending = EmptyBag
    /\ (resp.route \in {POST, GET, WALLS} /\ resp.status # 400) =>
         /\ resp.status = 500
         /\ resp.json.success = FALSE
         /\ resp.json.error \in {"Failed to save sensor data", "Failed to query sensor data",
                                 "Failed to get walls data"}
         /\ resp.logged = NotInitialized
         /\ proc = "running"
    /\ resp.route = HEALTH =>
         /\ resp.status = 503
         /\ resp.json.status = "unhealthy" /\ resp.json.database = "disconnected"
         /\ resp.json.error = NotInitialized
         /\ proc = "running"

\* a valid reading was posted before the connection existed
C10_Witness ==
  /\ db = "uninit" /\ proc = "running"
  /\ resp.route = POST /\ resp.status = 500 /\ ~BadReading(resp.req)

\* the error texts of the storage driver and of the exceptions thrown inside
\* the service
RawErrorTexts == {DriverError, NotInitialized}

\* C11: every failure response (400, 404, 500, 503), on every route, is a
\* JSON object with an error field, and that field is never the raw error
\* text of the storage driver or of an internal exception.
C11_Sanitized ==
  resp.status \in {400, 404, 500, 503} =>
    /\ "error" \in DOMAIN resp.json
    /\ resp.json.error \notin RawErrorTexts

\* C12: whatever limit reaches the handler of GET /sensor-data, the limit it
\* gives to the storage cursor lies between 1 and 1000.
C12_BuilderBounds ==
  (resp.route = HANDLER /\ resp.status = 200) =>
    (resp.cursorLimit >= MinLimit /\ resp.cursorLimit <= MaxLimit)

\* C13: every persisted reading has server_timestamp equal to created_at,
\* both read from the system clock while the request is handled: not before
\* the request was issued and not after the present.
C13_SameInstant ==
  \A i \in 1..Len(log) :
    /\ log[i].server_timestamp = log[i].created_at
    /\ log[i].server_timestamp >= acked[i].issued /\ log[i].created_at <= now

\* C14: when the process has ended on SIGINT or SIGTERM, no request is left
\* in flight: every pending insert was persisted or reported failed first.
C14_CooperativeShutdown ==
  proc = "exited" => pending = EmptyBag

====
